---- MODULE Spec2Model ----
(***************************************************************************)
(* A model of the algorithmic core of the obfuscate crate: the DJB2-XOR    *)
(* hash family (src/src/hash.rs), the splitmix entropy engine and the      *)
(* typed extraction of random! (src/src/lib.rs), and the UTF-8 to UTF-16   *)
(* literal transcoder (src/src/wide.rs).                                   *)
(*                                                                         *)
(* Machine integers keep their width.  A u32 is a sequence of 4 bytes and  *)
(* a u64 a sequence of 8 bytes, least significant byte first, so that      *)
(* wrapping_mul, wrapping_add, shifts and truncating casts are computed    *)
(* exactly as the hardware computes them.  Bytes, u16 code units and code  *)
(* points are plain numbers.                                               *)
(***************************************************************************)
EXTENDS Integers, Sequences, FiniteSets, TLC

VARIABLES
    op,        \* the entry point the caller invoked last ("init" before any)
    arg,       \* its byte-sequence argument (a u64 for the typed extraction)
    chars,     \* the code points of the literal, when the caller passed a &str
    LEN,       \* the const generic LEN of the last encode call
    ret,       \* what the call returned
    buildEnv,  \* option_env!("ENTROPY_SEED") when the crate was compiled
    env,       \* ENTROPY_SEED in the environment now
    SEED,      \* pub const SEED
    memo       \* <<key, value>> of one earlier entropy call, or <<>>

vars == <<op, arg, chars, LEN, ret, buildEnv, env, SEED, memo>>

(***************************************************************************)
(* Bounds of the model.                                                    *)
(***************************************************************************)
MaxLen == 3        \* bytes in a hashed buffer
MaxKeyLen == 2     \* bytes in an entropy key
MaxChars == 2      \* code points in a well-formed literal
MaxBytes == 4      \* bytes in a raw (possibly malformed) literal
MaxLEN == 3        \* largest LEN handed to encode directly

(***************************************************************************)
(* Bit operations on naturals, and fixed-width words.                      *)
(***************************************************************************)
RECURSIVE BitAnd(_, _)
BitAnd(a, b) ==
    IF a = 0 \/ b = 0 THEN 0
    ELSE (a % 2) * (b % 2) + 2 * BitAnd(a \div 2, b \div 2)

RECURSIVE BitOr(_, _)
BitOr(a, b) ==
    IF a = 0 THEN b
    ELSE IF b = 0 THEN a
    ELSE (IF a % 2 = 1 \/ b % 2 = 1 THEN 1 ELSE 0) + 2 * BitOr(a \div 2, b \div 2)

RECURSIVE BitXor(_, _)
BitXor(a, b) ==
    IF a = 0 THEN b
    ELSE IF b = 0 THEN a
    ELSE ((a + b) % 2) + 2 * BitXor(a \div 2, b \div 2)

RECURSIVE Pow2(_)
Pow2(k) == IF k = 0 THEN 1 ELSE 2 * Pow2(k - 1)

\* Carry propagation over per-byte column sums, dropping the carry out of the
\* top byte: the result wraps modulo 2^(8 * Len(cols)).
RECURSIVE Carry(_, _, _)
Carry(cols, k, c) ==
    IF k > Len(cols) THEN <<>>
    ELSE LET t == cols[k] + c
         IN  <<t % 256>> \o Carry(cols, k + 1, t \div 256)

RECURSIVE ColumnSum(_, _, _, _)
ColumnSum(x, y, k, i) ==
    IF i > k THEN 0 ELSE x[i] * y[k + 1 - i] + ColumnSum(x, y, k, i + 1)

wrapping_add(x, y) == Carry([k \in 1..Len(x) |-> x[k] + y[k]], 1, 0)

wrapping_mul(x, y) == Carry([k \in 1..Len(x) |-> ColumnSum(x, y, k, 1)], 1, 0)

WordXor(x, y) == [k \in 1..Len(x) |-> BitXor(x[k], y[k])]

WordOr(x, y) == [k \in 1..Len(x) |-> BitOr(x[k], y[k])]

\* x >> n: byte k of the result takes bits 8(k-1)+n .. 8(k-1)+n+7 of x.
WordShr(x, n) ==
    LET q == n \div 8
        r == n % 8
        At(j) == IF j <= Len(x) THEN x[j] ELSE 0
    IN  [k \in 1..Len(x) |->
            (At(k + q) \div Pow2(r)) + (At(k + q + 1) % Pow2(r)) * Pow2(8 - r)]

\* x << n, bits shifted out of the word are lost.
WordShl(x, n) ==
    LET q == n \div 8
        r == n % 8
        At(j) == IF j >= 1 THEN x[j] ELSE 0
    IN  [k \in 1..Len(x) |->
            ((At(k - q) * Pow2(r)) % 256) + (At(k - q - 1) \div Pow2(8 - r))]

\* A number below 2^31 as a word of n bytes (a zero-extending cast).
RECURSIVE Word(_, _)
Word(v, n) == IF n = 0 THEN <<>> ELSE <<v % 256>> \o Word(v \div 256, n - 1)

\* `x as u64` of a u32, and `x as u32` of a u64.
AsU64(x) == x \o <<0, 0, 0, 0>>

AsU32(x) == SubSeq(x, 1, 4)

(***************************************************************************)
(* src/src/hash.rs                                                         *)
(***************************************************************************)
\* (if val <= b'Z' { val + 0x20 } else { val }) as u32, once per function.
value_utf8_lt(val) == IF val < \H5A THEN val + \H20 ELSE val

value_utf8(val) == IF val <= \H5A THEN val + \H20 ELSE val

value_bytes_range(val) == IF val >= \H41 /\ val <= \H5A THEN val + \H20 ELSE val

value_bytes(val) == IF val <= \H5A THEN val + \H20 ELSE val

value_cstr(val) == IF val <= \H5A THEN val + \H20 ELSE val

\* result.wrapping_mul(33) ^ value
Mix(result, value) == WordXor(wrapping_mul(result, Word(33, 4)), Word(value, 4))

RECURSIVE hash_utf8_loop(_, _, _)
hash_utf8_loop(buf, index, result) ==
    IF ~(index < Len(buf)) THEN result
    ELSE LET val == buf[index + 1]
         IN  IF val = 0 THEN hash_utf8_loop(buf, index + 1, result)
             ELSE hash_utf8_loop(buf, index + 1, Mix(result, value_utf8(val)))

hash_utf8(source) == hash_utf8_loop(source, 0, Word(3581, 4))

\* A loop that ends at a NUL instead of stepping over it.
RECURSIVE hash_bytes_loop_break(_, _, _)
hash_bytes_loop_break(buf, index, result) ==
    IF ~(index < Len(buf)) THEN result
    ELSE LET val == buf[index + 1]
         IN  IF val = 0 THEN result
             ELSE hash_bytes_loop_break(buf, index + 1, Mix(result, value_bytes(val)))

RECURSIVE hash_bytes_loop(_, _, _)
hash_bytes_loop(buf, index, result) ==
    IF ~(index < Len(buf)) THEN result
    ELSE LET val == buf[index + 1]
         IN  IF val = 0 THEN hash_bytes_loop(buf, index + 1, result)
             ELSE hash_bytes_loop(buf, index + 1, Mix(result, value_bytes(val)))

hash_bytes(buf) == hash_bytes_loop(buf, 0, Word(3581, 4))

\* A loop that steps over a NUL instead of ending at it.
RECURSIVE hash_cstr_loop_skip(_, _, _)
hash_cstr_loop_skip(buf, index, result) ==
    IF ~(index < Len(buf)) THEN result
    ELSE LET val == buf[index + 1]
         IN  IF val = 0 THEN hash_cstr_loop_skip(buf, index + 1, result)
             ELSE hash_cstr_loop_skip(buf, index + 1, Mix(result, value_cstr(val)))

RECURSIVE hash_cstr_loop(_, _, _)
hash_cstr_loop(buf, index, result) ==
    IF ~(index < Len(buf)) THEN result
    ELSE LET val == buf[index + 1]
         IN  IF val = 0 THEN result
             ELSE hash_cstr_loop(buf, index + 1, Mix(result, value_cstr(val)))

\* buf.to_bytes_with_nul() is the buffer up to and including its terminator;
\* the loop reads the memory the CStr was made from and breaks at the first NUL.
hash_cstr(buf) == hash_cstr_loop(buf, 0, Word(3581, 4))

\* lib.rs names the string hash `hash` (pub use hash::hash); hash.rs defines it
\* as hash_utf8.
hash(string) == hash_utf8(string)

(***************************************************************************)
(* src/src/lib.rs: splitmix, SEED, entropy, __random_cast                  *)
(***************************************************************************)
\* Byte sequences written most significant byte first, as in the source.
RECURSIVE Reverse(_)
Reverse(s) == IF s = <<>> THEN <<>> ELSE Reverse(Tail(s)) \o <<Head(s)>>

Golden == Reverse(<<\H9E, \H37, \H79, \HB9, \H7F, \H4A, \H7C, \H15>>)

MulA == Reverse(<<\HBF, \H58, \H47, \H6D, \H1C, \HE4, \HE5, \HB9>>)

MulB == Reverse(<<\H94, \HD0, \H49, \HBB, \H13, \H31, \H11, \HEB>>)

splitmix(seed) ==
    LET next0 == wrapping_add(seed, Golden)
        z1 == wrapping_mul(WordXor(next0, WordShr(next0, 30)), MulA)
        z2 == wrapping_mul(WordXor(z1, WordShr(z1, 27)), MulB)
    IN  WordXor(z2, WordShr(z2, 31))

\* "FIXED"
FIXED == <<70, 73, 88, 69, 68>>

\* The values ENTROPY_SEED takes: unset (<<>> stands for None) or "x".
EnvValues == {<<>>, <<120>>}

\* match option_env!("ENTROPY_SEED") { Some(seed) => seed, None => "FIXED" }
SeedString(e) == IF e = <<>> THEN FIXED ELSE e

SeedOf(e) == splitmix(AsU64(hash(SeedString(e))))

\* An entropy that derives the seed from the environment at the call.
entropy_env(string) == splitmix(WordXor(SeedOf(env), splitmix(AsU64(hash(string)))))

entropy(string) == splitmix(WordXor(SEED, splitmix(AsU64(hash(string)))))

\* __random_cast!(f32, $seed) with the exponent shifted by MANTISSA_DIGITS.
random_cast_f32_digits(seed) ==
    WordOr(WordShl(Word(127, 4), 24), WordShr(AsU32(seed), 9))

\* __random_cast!(f32, $seed) taking the mantissa from the top of the u64.
random_cast_f32_high(seed) ==
    WordOr(WordShl(Word(127, 4), 24 - 1), AsU32(WordShr(seed, 41)))

\* 0b0_01111111 << (f32::MANTISSA_DIGITS - 1) | ($seed as u32 >> 9)
random_cast_f32(seed) ==
    WordOr(WordShl(Word(127, 4), 24 - 1), WordShr(AsU32(seed), 9))

\* 0b0_01111111111 << (f64::MANTISSA_DIGITS - 1) | ($seed >> 12)
random_cast_f64(seed) ==
    WordOr(WordShl(Word(1023, 8), 53 - 1), WordShr(seed, 12))

(***************************************************************************)
(* src/src/wide.rs                                                         *)
(***************************************************************************)
Shl(v, n) == v * Pow2(n)

\* Option<(u32, &[u8])>: <<>> is None, <<chr, tail>> is Some((chr, tail)).
\* A decoder that takes a byte no arm matches as a unit of its own.
next_lossy(bytes) ==
    LET n == Len(bytes)
        a == bytes[1]
        b == bytes[2]
        c == bytes[3]
        d == bytes[4]
    IN  IF n >= 1 /\ BitAnd(a, \H80) = \H00 THEN <<a, SubSeq(bytes, 2, n)>>
        ELSE IF n >= 2 /\ BitAnd(a, \HE0) = \HC0 THEN
            <<BitOr(Shl(BitAnd(a, \H1F), 6), BitAnd(b, \H3F)), SubSeq(bytes, 3, n)>>
        ELSE IF n >= 3 /\ BitAnd(a, \HF0) = \HE0 THEN
            <<BitOr(BitOr(Shl(BitAnd(a, \H0F), 12), Shl(BitAnd(b, \H3F), 6)),
                    BitAnd(c, \H3F)),
              SubSeq(bytes, 4, n)>>
        ELSE IF n >= 4 /\ BitAnd(a, \HF8) = \HF0 THEN
            <<BitOr(BitOr(BitOr(Shl(BitAnd(a, \H07), 18), Shl(BitAnd(b, \H3F), 12)),
                          Shl(BitAnd(c, \H3F), 6)),
                    BitAnd(d, \H3F)),
              SubSeq(bytes, 5, n)>>
        ELSE IF n >= 1 THEN <<a, SubSeq(bytes, 2, n)>>
        ELSE <<>>

next(bytes) ==
    LET n == Len(bytes)
        a == bytes[1]
        b == bytes[2]
        c == bytes[3]
        d == bytes[4]
    IN  IF n >= 1 /\ BitAnd(a, \H80) = \H00 THEN <<a, SubSeq(bytes, 2, n)>>
        ELSE IF n >= 2 /\ BitAnd(a, \HE0) = \HC0 THEN
            <<BitOr(Shl(BitAnd(a, \H1F), 6), BitAnd(b, \H3F)), SubSeq(bytes, 3, n)>>
        ELSE IF n >= 3 /\ BitAnd(a, \HF0) = \HE0 THEN
            <<BitOr(BitOr(Shl(BitAnd(a, \H0F), 12), Shl(BitAnd(b, \H3F), 6)),
                    BitAnd(c, \H3F)),
              SubSeq(bytes, 4, n)>>
        ELSE IF n >= 4 /\ BitAnd(a, \HF8) = \HF0 THEN
            <<BitOr(BitOr(BitOr(Shl(BitAnd(a, \H07), 18), Shl(BitAnd(b, \H3F), 12)),
                          Shl(BitAnd(c, \H3F), 6)),
                    BitAnd(d, \H3F)),
              SubSeq(bytes, 5, n)>>
        ELSE <<>>

\* len += if chr >= 0x10000 { 2 } else { 1 }, with the comparison off by one.
units_gt(chr) == IF chr > \H10000 THEN 2 ELSE 1

units(chr) == IF chr >= \H10000 THEN 2 ELSE 1

RECURSIVE len_loop(_, _)
len_loop(bytes, n) ==
    LET nx == next(bytes)
    IN  IF nx = <<>> THEN n ELSE len_loop(nx[2], n + units(nx[1]))

len(s) == len_loop(s, 0)

AsU16(v) == v % 65536

\* The outcome of encode: panic is the index-out-of-bounds failure of data[i]
\* (a compile error under const evaluation), data the returned [u16; LEN] and
\* i the number of slots the loop wrote.
Panicked == [panic |-> TRUE, data |-> <<>>, i |-> 0]

\* An encode whose stores past the end of data are dropped instead of checked.
RECURSIVE encode_loop_unchecked(_, _, _)
encode_loop_unchecked(bytes, data, i) ==
    LET nx == next(bytes)
        chr == nx[1]
        put(dt, j, v) == IF j < Len(dt) THEN [dt EXCEPT ![j + 1] = v] ELSE dt
    IN  IF nx = <<>> THEN [panic |-> FALSE, data |-> data, i |-> i]
        ELSE IF chr >= \H10000 THEN
            encode_loop_unchecked(nx[2],
                put(put(data, i, AsU16(\HD800 + ((chr - \H10000) \div \H400))),
                    i + 1, AsU16(\HDC00 + ((chr - \H10000) % \H400))),
                i + 2)
        ELSE encode_loop_unchecked(nx[2], put(data, i, AsU16(chr)), i + 1)

RECURSIVE encode_loop(_, _, _)
encode_loop(bytes, data, i) ==
    LET nx == next(bytes)
        chr == nx[1]
    IN  IF nx = <<>> THEN [panic |-> FALSE, data |-> data, i |-> i]
        ELSE IF chr >= \H10000 THEN
            IF ~(i < Len(data)) THEN Panicked
            ELSE IF ~(i + 1 < Len(data)) THEN Panicked
            ELSE encode_loop(nx[2],
                    [data EXCEPT ![i + 1] = AsU16(\HD800 + ((chr - \H10000) \div \H400)),
                                 ![i + 2] = AsU16(\HDC00 + ((chr - \H10000) % \H400))],
                    i + 2)
        ELSE IF ~(i < Len(data)) THEN Panicked
        ELSE encode_loop(nx[2], [data EXCEPT ![i + 1] = AsU16(chr)], i + 1)

\* encode::<N>(s); let mut data = [0u16; LEN]
encode(s, N) == encode_loop(s, [k \in 1..N |-> 0], 0)

\* s.as_bytes() of a string literal: the UTF-8 encoding of its code points.
Utf8Char(c) ==
    IF c < \H80 THEN <<c>>
    ELSE IF c < \H800 THEN <<\HC0 + (c \div 64), \H80 + (c % 64)>>
    ELSE IF c < \H10000 THEN
        <<\HE0 + (c \div 4096), \H80 + ((c \div 64) % 64), \H80 + (c % 64)>>
    ELSE <<\HF0 + (c \div 262144), \H80 + ((c \div 4096) % 64),
           \H80 + ((c \div 64) % 64), \H80 + (c % 64)>>

RECURSIVE as_bytes(_)
as_bytes(cs) == IF cs = <<>> THEN <<>> ELSE Utf8Char(Head(cs)) \o as_bytes(Tail(cs))

(***************************************************************************)
(* The inputs the callers draw from.                                       *)
(***************************************************************************)
Seqs(S, n) == UNION {[1..k -> S] : k \in 0..n}

\* NUL, ' ', '0', 'A', 'Z', '[', 'a', 'z'
HashAlphabet == {\H00, \H20, \H30, \H41, \H5A, \H5B, \H61, \H7A}

\* Strings (all ASCII) for hash_utf8 and hash_cstr.
HashInputs == Seqs(HashAlphabet, MaxLen)

\* Byte strings for hash_bytes: the same, and a byte that is not ASCII.
ByteInputs == Seqs(HashAlphabet \cup {\HFF}, MaxLen)

\* ':' and 'a': the shapes of a call-site key "file:line:column:seed"
KeyAlphabet == {\H3A, \H61}

Keys == Seqs(KeyAlphabet, MaxKeyLen)

\* 64-bit values whose bytes are each all zeros, all ones or 10100101.
CastValues == [1..8 -> {\H00, \HA5, \HFF}]

\* Code points of every UTF-8 length and at each boundary, no surrogates.
WideChars == {\H00, \H41, \H7F, \H80, \HB6, \H7FF, \H800, \HFFFF,
              \H10000, \H1F600, \H10FFFF}

Literals == Seqs(WideChars, MaxChars)

\* 'A', a continuation byte, 2-, 3- and 4-byte lead bytes, and 11111000.
RawAlphabet == {\H41, \H80, \HC3, \HE2, \HF0, \HF8}

RawInputs == Seqs(RawAlphabet, MaxBytes)

(***************************************************************************)
(* The caller: one call at a time, its result held until it returns.       *)
(***************************************************************************)
Init ==
    /\ op = "idle"
    /\ arg = <<>>
    /\ chars = <<>>
    /\ LEN = 0
    /\ ret = <<>>
    /\ buildEnv = <<>>
    /\ env = <<>>
    /\ SEED = SeedOf(buildEnv)
    /\ memo = <<>>

\* The crate compiled with ENTROPY_SEED set or unset.
InitEntropy ==
    /\ op = "idle"
    /\ arg = <<>>
    /\ chars = <<>>
    /\ LEN = 0
    /\ ret = <<>>
    /\ buildEnv \in EnvValues
    /\ env = buildEnv
    /\ SEED = SeedOf(buildEnv)
    /\ memo = <<>>

Quiet == UNCHANGED <<chars, LEN, buildEnv, env, SEED, memo>>

HashUtf8Call(S) ==
    /\ op = "idle"
    /\ \E s \in S :
            /\ op' = "hash_utf8"
            /\ arg' = s
            /\ ret' = hash_utf8(s)
            /\ Quiet

HashBytesCall(S) ==
    /\ op = "idle"
    /\ \E b \in S :
            /\ op' = "hash_bytes"
            /\ arg' = b
            /\ ret' = hash_bytes(b)
            /\ Quiet

\* The CStr is made from a buffer that ends in a NUL and may hold others.
HashCstrCall(S) ==
    /\ op = "idle"
    /\ \E b \in S :
            /\ op' = "hash_cstr"
            /\ arg' = b \o <<0>>
            /\ ret' = hash_cstr(b \o <<0>>)
            /\ Quiet

EntropyCall ==
    /\ op = "idle"
    /\ \E k \in Keys :
            /\ op' = "entropy"
            /\ arg' = k
            /\ ret' = entropy(k)
            /\ Quiet

\* random!(f32, key) and random!(f64, key): the cast of entropy(key).
RandomCall ==
    /\ op = "idle"
    /\ \E k \in Keys, ty \in {"random_f32", "random_f64"} :
            LET v == entropy(k)
            IN  /\ op' = ty
                /\ arg' = v
                /\ ret' = IF ty = "random_f32" THEN random_cast_f32(v)
                          ELSE random_cast_f64(v)
                /\ Quiet

\* __random_cast!(f32, v) and __random_cast!(f64, v) on any 64-bit value.
RandomCast ==
    /\ op = "idle"
    /\ \E v \in CastValues, ty \in {"random_f32", "random_f64"} :
            /\ op' = ty
            /\ arg' = v
            /\ ret' = IF ty = "random_f32" THEN random_cast_f32(v)
                      ELSE random_cast_f64(v)
            /\ Quiet

LenCall ==
    /\ op = "idle"
    /\ \E b \in RawInputs :
            /\ op' = "len"
            /\ arg' = b
            /\ ret' = len(b)
            /\ Quiet

EncodeCall ==
    /\ op = "idle"
    /\ \E b \in RawInputs, N \in 0..MaxLEN :
            /\ op' = "encode"
            /\ arg' = b
            /\ LEN' = N
            /\ ret' = encode(b, N)
            /\ UNCHANGED <<chars, buildEnv, env, SEED, memo>>

\* wide!(s): _WIDE_LEN = len(s), _WIDE_WORDS = encode::<_WIDE_LEN>(s)
WideMacro(S) ==
    /\ op = "idle"
    /\ \E cs \in S :
            /\ op' = "wide"
            /\ chars' = cs
            /\ arg' = as_bytes(cs)
            /\ LEN' = len(as_bytes(cs))
            /\ ret' = encode(as_bytes(cs), len(as_bytes(cs)))
            /\ UNCHANGED <<buildEnv, env, SEED, memo>>

\* ENTROPY_SEED changes in the environment of the compiled program.
SetEnv ==
    /\ op = "idle"
    /\ \E e \in EnvValues :
            /\ e # env
            /\ env' = e
            /\ UNCHANGED <<op, arg, chars, LEN, ret, buildEnv, SEED, memo>>

\* The caller takes the result; an entropy value may be kept for comparison
\* with a later call.
Return ==
    /\ op # "idle"
    /\ op' = "idle"
    /\ arg' = <<>>
    /\ chars' = <<>>
    /\ LEN' = 0
    /\ ret' = <<>>
    /\ \/ memo' = memo
       \/ op = "entropy" /\ memo' = <<arg, ret>>
    /\ UNCHANGED <<buildEnv, env, SEED>>

NextHash ==
    \/ HashUtf8Call(HashInputs)
    \/ HashBytesCall(ByteInputs)
    \/ HashCstrCall(HashInputs)
    \/ Return

NextEntropy ==
    \/ EntropyCall
    \/ RandomCall
    \/ SetEnv
    \/ HashUtf8Call(Keys)
    \/ HashBytesCall(Keys)
    \/ HashCstrCall(Keys)
    \/ WideMacro(Keys)
    \/ Return

NextCast ==
    \/ RandomCast
    \/ RandomCall
    \/ Return

NextWide ==
    \/ LenCall
    \/ EncodeCall
    \/ WideMacro(Literals)
    \/ Return

Next == NextHash \/ NextEntropy \/ NextCast \/ NextWide

SpecHash == Init /\ [][NextHash]_vars

SpecEntropy == InitEntropy /\ [][NextEntropy]_vars

SpecCast == Init /\ [][NextCast]_vars

SpecWide == Init /\ [][NextWide]_vars

Spec == Init /\ [][Next]_vars

(***************************************************************************)
(* The claims.                                                             *)
(***************************************************************************)
NotNul(b) == b # 0

\* The bytes of buf before its first NUL.
RECURSIVE UntilNul(_)
UntilNul(buf) ==
    IF buf = <<>> \/ Head(buf) = 0 THEN <<>>
    ELSE <<Head(buf)>> \o UntilNul(Tail(buf))

uppercase_ascii(s) ==
    [k \in 1..Len(s) |-> IF s[k] >= \H61 /\ s[k] <= \H7A THEN s[k] - \H20 ELSE s[k]]

\* C1: hash_utf8 is ASCII case-insensitive: the hash of a pure-ASCII string
\* equals the hash of the string with each 'a'..'z' replaced by 'A'..'Z'.
C1_CaseInsensitive ==
    op = "hash_utf8" => ret = hash_utf8(uppercase_ascii(arg))

C1_Witness ==
    /\ op = "hash_utf8"
    /\ \E k \in 1..Len(arg) : arg[k] = \H7A
    /\ \E k \in 1..Len(arg) : arg[k] = \H30
    /\ ret = hash_utf8(uppercase_ascii(arg))

\* The DJB2-XOR fold of a sequence of byte values, from 3581.
RECURSIVE Djb2(_, _)
Djb2(vals, h) == IF vals = <<>> THEN h ELSE Djb2(Tail(vals), Mix(h, Head(vals)))

\* The bytes a hash entry point folds in: all but the NULs, or for hash_cstr
\* those before the first NUL.
Contributing == IF op = "hash_cstr" THEN UntilNul(arg) ELSE SelectSeq(arg, NotNul)

IsHashCall == op \in {"hash_utf8", "hash_bytes", "hash_cstr"}

\* C2 as stated: the fold adds 0x20 to the bytes 0x41..0x5A only; every other
\* non-NUL byte enters the running hash unchanged.
C2_FoldOnlyUppercase ==
    IsHashCall =>
        ret = Djb2([k \in 1..Len(Contributing) |->
                        IF Contributing[k] >= \H41 /\ Contributing[k] <= \H5A
                        THEN Contributing[k] + \H20 ELSE Contributing[k]],
                   Word(3581, 4))

\* C2, amended: the fold adds 0x20 to every non-NUL byte up to 0x5A ('Z'),
\* the bytes below 'A' included; only the bytes above 0x5A enter the running
\* hash unchanged.
C2_FoldUpToZ ==
    IsHashCall =>
        ret = Djb2([k \in 1..Len(Contributing) |->
                        IF Contributing[k] <= \H5A
                        THEN Contributing[k] + \H20 ELSE Contributing[k]],
                   Word(3581, 4))

C2_Witness ==
    /\ op = "hash_bytes"
    /\ \E k \in 1..Len(arg) : arg[k] = \H30
    /\ \E k \in 1..Len(arg) : arg[k] = \H5B
    /\ ret # Djb2(SelectSeq(arg, NotNul), Word(3581, 4))

\* C3: NUL bytes never contribute to hash_bytes: appending three NULs, or
\* removing every NUL, trailing or interior, leaves the hash the same.
C3_NulSkipped ==
    op = "hash_bytes" =>
        /\ ret = hash_bytes(arg \o <<0, 0, 0>>)
        /\ ret = hash_bytes(SelectSeq(arg, NotNul))

C3_Witness ==
    /\ op = "hash_bytes"
    /\ Len(arg) = 3
    /\ arg[1] # 0 /\ arg[2] = 0 /\ arg[3] # 0
    /\ ret = hash_bytes(<<arg[1], arg[3]>>)
    /\ ret # hash_bytes(<<arg[1]>>)

\* C4: hash_cstr stops at the first NUL: over p ++ [0] ++ t it returns what it
\* returns over p ++ [0], which is hash_bytes(p) and hash_utf8(p).
C4_StopsAtFirstNul ==
    op = "hash_cstr" =>
        /\ ret = hash_cstr(UntilNul(arg) \o <<0>>)
        /\ ret = hash_bytes(UntilNul(arg))
        /\ ret = hash_utf8(UntilNul(arg))

C4_Witness ==
    /\ op = "hash_cstr"
    /\ Len(arg) = 4
    /\ arg[1] # 0 /\ arg[2] = 0 /\ arg[3] # 0
    /\ ret = hash_cstr(<<arg[1], 0>>)
    /\ ret # hash_bytes(arg)

\* C5: entropy is stateless and reproducible: SEED is the value computed when
\* the crate was built, whatever happened since; entropy(k) is
\* splitmix(SEED XOR splitmix(hash_utf8(k))); and it equals the value any
\* earlier call with the same key returned.
C5_EntropyReproducible ==
    /\ SEED = splitmix(AsU64(hash_utf8(IF buildEnv = <<>> THEN FIXED ELSE buildEnv)))
    /\ op = "entropy" =>
        /\ ret = splitmix(WordXor(SEED, splitmix(AsU64(hash_utf8(arg)))))
        /\ (memo # <<>> /\ memo[1] = arg) => ret = memo[2]

C5_Witness ==
    /\ op = "entropy"
    /\ memo # <<>>
    /\ memo[1] = arg
    /\ Len(arg) > 0
    /\ env # buildEnv
    /\ ret = memo[2]

\* The fields of an f32 and of an f64 bit pattern.
SignF32(f) == f[4] \div 128

ExponentF32(f) == (f[4] % 128) * 2 + (f[3] \div 128)

MantissaF32(f) == f[1] + f[2] * 256 + (f[3] % 128) * 65536

SignF64(f) == f[8] \div 128

ExponentF64(f) == (f[8] % 128) * 16 + (f[7] \div 16)

\* C6: the f32 and f64 extractions lie in [1.0, 2.0): sign bit 0 and biased
\* exponent exactly 0x7F (f32) or 0x3FF (f64), for every 64-bit value.
C6_FloatRange ==
    /\ op = "random_f32" => SignF32(ret) = 0 /\ ExponentF32(ret) = \H7F
    /\ op = "random_f64" => SignF64(ret) = 0 /\ ExponentF64(ret) = \H3FF

C6_Witness ==
    /\ op = "random_f32"
    /\ AsU32(arg) = <<\HFF, \HFF, \HFF, \HFF>>
    /\ MantissaF32(ret) = 8388607
    /\ ExponentF32(ret) = \H7F

\* Bits 63..41 and bits 31..9 of a 64-bit value, as numbers below 2^23.
Bits63to41(v) == (v[6] \div 2) + v[7] * 128 + v[8] * 32768

Bits31to9(v) == (v[2] \div 2) + v[3] * 128 + v[4] * 32768

\* C7 as stated: the mantissa of the f32 extraction is the high-order 23 bits
\* (bits 63..41) of the 64-bit value.
C7_MantissaFromHighBits ==
    op = "random_f32" => MantissaF32(ret) = Bits63to41(arg)

\* C7, amended: the mantissa of the f32 extraction is bits 31..9 of the 64-bit
\* value, the high-order 23 bits of its low 32-bit half; the f32 depends on
\* the lower half only.
C7_MantissaFromLowHalf ==
    op = "random_f32" => MantissaF32(ret) = Bits31to9(arg)

C7_Witness ==
    /\ op = "random_f32"
    /\ Bits63to41(arg) = 0
    /\ MantissaF32(ret) = 8388607

\* The UTF-16 encoding of a code point and of a string.
Utf16Char(c) ==
    IF c < \H10000 THEN <<c>>
    ELSE <<\HD800 + ((c - \H10000) \div \H400), \HDC00 + ((c - \H10000) % \H400)>>

RECURSIVE Utf16(_)
Utf16(cs) == IF cs = <<>> THEN <<>> ELSE Utf16Char(Head(cs)) \o Utf16(Tail(cs))

\* C8: for a well-formed string, len counts 1 per code point below 0x10000
\* and 2 per code point from 0x10000, and encode with that LEN writes every
\* slot and returns the UTF-16 encoding, surrogates in their ranges.
C8_EncodesUtf16 ==
    op = "wide" =>
        /\ LEN = Len(Utf16(chars))
        /\ ~ret.panic
        /\ ret.i = LEN
        /\ ret.data = Utf16(chars)
        /\ \A k \in 1..Len(chars) :
              chars[k] >= \H10000 =>
                \E j \in 1..(LEN - 1) :
                    /\ ret.data[j] = \HD800 + ((chars[k] - \H10000) \div \H400)
                    /\ ret.data[j] >= \HD800 /\ ret.data[j] <= \HDBFF
                    /\ ret.data[j + 1] = \HDC00 + ((chars[k] - \H10000) % \H400)
                    /\ ret.data[j + 1] >= \HDC00 /\ ret.data[j + 1] <= \HDFFF

C8_Witness ==
    /\ op = "wide"
    /\ chars = <<\HB6, \H1F600>>
    /\ LEN = 3
    /\ ret.data = <<182, 55357, 56832>>

\* The bytes a lead byte's pattern takes: 0 when the byte starts none.
Need(a) ==
    IF a < \H80 THEN 1
    ELSE IF a >= \HC0 /\ a <= \HDF THEN 2
    ELSE IF a >= \HE0 /\ a <= \HEF THEN 3
    ELSE IF a >= \HF0 /\ a <= \HF7 THEN 4
    ELSE 0

\* How many bytes of b precede the first place no complete pattern begins.
RECURSIVE DecodedLen(_)
DecodedLen(b) ==
    IF b = <<>> THEN 0
    ELSE LET n == Need(b[1])
         IN  IF n = 0 \/ n > Len(b) THEN 0
             ELSE n + DecodedLen(SubSeq(b, n + 1, Len(b)))

Malformed(b) == DecodedLen(b) < Len(b)

\* C9: malformed UTF-8 is truncated silently: len and encode stop at the
\* first byte that begins no complete pattern, without an error, return what
\* the bytes before it give, and ignore every byte after it.
C9_TruncatesAtMalformed ==
    Malformed(arg) =>
        LET before == SubSeq(arg, 1, DecodedLen(arg))
        IN  /\ op = "len" => ret = len(before)
            /\ (op = "encode" /\ LEN = len(before)) =>
                    /\ ~ret.panic
                    /\ ret = encode(before, LEN)

C9_Witness ==
    /\ op = "encode"
    /\ Len(arg) = 4
    /\ DecodedLen(arg) = 2
    /\ arg[4] = \H41
    /\ LEN = 1
    /\ ~ret.panic
    /\ ret.i = 1

\* C10 as stated: encode with LEN different from len(s) fails a check.
C10_MismatchCaught ==
    (op = "encode" /\ LEN # len(arg)) => ret.panic

\* C10, amended: encode with LEN < len(s) fails the bounds check of a store;
\* encode with LEN > len(s) fails nothing and returns the len(s) units
\* followed by LEN - len(s) zero units.
C10_ShortPanicsLongPads ==
    op = "encode" =>
        /\ LEN < len(arg) => ret.panic
        /\ LEN > len(arg) =>
            /\ ~ret.panic
            /\ ret.i = len(arg)
            /\ ret.data = encode(arg, len(arg)).data
                            \o [k \in 1..(LEN - len(arg)) |-> 0]

C10_Witness ==
    /\ op = "encode"
    /\ len(arg) = 2
    /\ LEN = 3
    /\ ~ret.panic
    /\ ret.data[3] = 0
====
